---- MODULE Spec2Model ----
(***************************************************************************)
(* Model of src/main.rs: run_game spawns a child process, writes the seed  *)
(* line to its stdin, and runs three scoped threads (print_thread,         *)
(* tick_thread, input_thread) that share the child's stdin behind a Mutex  *)
(* and poll the print thread's join handle behind a second Mutex.          *)
(* Bytes written to the child's stdin are recorded one by one, tagged with *)
(* the writer, so that interleaving of lines is observable.                *)
(***************************************************************************)
EXTENDS Integers, Sequences, FiniteSets, TLC

VARIABLES
    seed,               \* args.seed
    coord,              \* control position of run_game
    coord_sent,         \* bytes of the seed line already written
    child,              \* "none" | "running" | "exited"
    exit_code,          \* exit status of the child (-1 while not exited)
    child_stdin_open,   \* the child still holds the read end of its stdin
    child_stdout_open,  \* the child still holds the write end of its stdout
    driver_stdin_open,  \* run_game still holds child.stdin (dropped by wait)
    produced,           \* lines the child has written to its stdout
    nread,              \* how many of them BufReader::lines has yielded
    printed,            \* lines print_thread has println!-ed
    pipe,               \* bytes accepted by the child's stdin, with writer
    print_pc,           \* control position of print_thread
    tick_pc,            \* control position of tick_thread
    input_pc,           \* control position of input_thread
    game_thread,        \* holder of the Mutex around the ScopedJoinHandle
    stdin,              \* holder of the Mutex around ChildStdin
    stdin_poisoned,     \* the stdin Mutex is poisoned (a holder panicked)
    tick_sent,          \* bytes of the tick line already written
    input_sent,         \* bytes of the key line already written
    input,              \* the char returned by term.read_char()
    elapsed,            \* seconds since start_time at the last clock read
    time_to_sleep,      \* milliseconds computed for the next sleep
    prompted,           \* "Press any key to exit" has been printed
    tick_late,          \* write_all calls tick_thread began after print_thread finished
    input_late          \* write_all calls input_thread began after print_thread finished

vars == <<seed, coord, coord_sent, child, exit_code, child_stdin_open,
          child_stdout_open, driver_stdin_open, produced, nread, printed,
          pipe, print_pc, tick_pc, input_pc, game_thread, stdin,
          stdin_poisoned, tick_sent, input_sent, input, elapsed,
          time_to_sleep, prompted, tick_late, input_late>>

coordVars  == <<coord, coord_sent, driver_stdin_open>>
childVars  == <<child, exit_code, child_stdin_open, child_stdout_open, produced>>
printVars  == <<print_pc, nread, printed>>
tickVars   == <<tick_pc, tick_sent, elapsed, time_to_sleep, prompted, tick_late>>
inputVars  == <<input_pc, input_sent, input, input_late>>
lockVars   == <<game_thread, stdin, stdin_poisoned>>

----------------------------------------------------------------------------
(* Bounds of the model *)

MaxOutputLines == 2     \* lines the child writes to its stdout
PipeCapacity   == 6     \* bytes the child's stdin accepts before writes block

(* Inputs *)
Seeds          == {7, -12}
OutputLines    == {"hello", "<invalid utf-8>"}
Keys           == {"w", "a", "s", "d", "q", "x", "W"}
ElapsedSamples == {3, 100}
ExitCodes      == {0, 1}

----------------------------------------------------------------------------
(* Constants of the program *)

\* Variant: the allow-set ignores case
VALID_CHARS_AnyCase == {"w", "a", "s", "d", "q", "W", "A", "S", "D", "Q"}

VALID_CHARS == {"w", "a", "s", "d", "q"}
TICK_TOKEN  == <<"'", "\n">>
GAME_SPEED_MULTIPLIER_MILLI == 1200
BASE == 10
MAX_SLEEP_MILLI == 1000

(* Fixed-point precision of the logarithm *)
Scale    == BASE * BASE * BASE
FracBits == 10

----------------------------------------------------------------------------
(* Pure functions *)

Min(a, b) == IF a < b THEN a ELSE b

RECURSIVE Pow2(_)
Pow2(n) == IF n = 0 THEN 1 ELSE 2 * Pow2(n - 1)

DigitChar(d) == <<"0", "1", "2", "3", "4", "5", "6", "7", "8", "9">>[d + 1]

\* Display of a non-negative integer, most significant digit first
RECURSIVE Digits(_)
Digits(n) == IF n < 10 THEN <<DigitChar(n)>>
             ELSE Digits(n \div 10) \o <<DigitChar(n % 10)>>

\* format!("{}", n) for an i32
ToDecimal(n) == IF n < 0 THEN <<"-">> \o Digits(0 - n) ELSE Digits(n)

\* format!("{}\n", args.seed).as_bytes()
SeedLine(s) == ToDecimal(s) \o <<"\n">>

\* format!("{}\n", input).as_bytes()
KeyLine(c) == <<c, "\n">>

\* Integer part of log10(y / Scale), y >= Scale
RECURSIVE IntLog(_)
IntLog(y) == IF y < BASE * Scale THEN 0 ELSE 1 + IntLog(y \div BASE)

\* y / Scale brought into [1, BASE)
RECURSIVE Mantissa(_)
Mantissa(y) == IF y < BASE * Scale THEN y ELSE Mantissa(y \div BASE)

\* Fractional part of log_BASE(y / Scale) in units of 2^-bits, by squaring
RECURSIVE FracLog(_, _)
FracLog(y, bits) ==
    IF bits = 0 THEN 0
    ELSE LET sq == (y * y) \div Scale
         IN  IF sq >= BASE * Scale
             THEN Pow2(bits - 1) + FracLog(sq \div BASE, bits - 1)
             ELSE FracLog(sq, bits - 1)

\* f64::log(if elapsed < BASE { BASE } else { elapsed }, BASE), in 2^-FracBits
num(e) ==
    LET x == IF e < BASE THEN BASE ELSE e
    IN  IntLog(x * Scale) * Pow2(FracBits) + FracLog(Mantissa(x * Scale), FracBits)

\* Variant: the other speed constant, 1.3
SleepMillis_Multiplier13(e) ==
    Min(MAX_SLEEP_MILLI, (1300 * Pow2(FracBits)) \div num(e))

\* f64::min(1.0, GAME_SPEED_MULTIPLIER / num), in milliseconds
SleepMillis(e) ==
    Min(MAX_SLEEP_MILLI, (GAME_SPEED_MULTIPLIER_MILLI * Pow2(FracBits)) \div num(e))

\* Variant: "finished" taken to mean that no output is pending
is_finished_Drained == print_pc # "unstarted" /\ nread = Len(produced)

\* ScopedJoinHandle::is_finished() of the print thread
is_finished == print_pc \in {"returned", "panic_decode"}

Byte(w, b) == [w |-> w, b |-> b]

\* Bookkeeping: a write_all call whose first byte is attempted (sent = 0)
\* when print_thread has already finished is one more late attempt
LateAttempt(sent, late) == IF sent = 0 /\ is_finished THEN late + 1 ELSE late

PrintDone == {"returned", "panic_decode"}
TickDone  == {"returned", "panic_write"}
InputDone == {"returned", "panic_read", "panic_poison"}
TickPanic  == {"panic_write"}
InputPanic == {"panic_read", "panic_poison"}

----------------------------------------------------------------------------
InitWith(seeds) ==
    /\ seed \in seeds
    /\ coord = "spawn"
    /\ coord_sent = 0
    /\ child = "none"
    /\ exit_code = -1
    /\ child_stdin_open = FALSE
    /\ child_stdout_open = FALSE
    /\ driver_stdin_open = FALSE
    /\ produced = <<>>
    /\ nread = 0
    /\ printed = <<>>
    /\ pipe = <<>>
    /\ print_pc = "unstarted"
    /\ tick_pc = "unstarted"
    /\ input_pc = "unstarted"
    /\ game_thread = "none"
    /\ stdin = "none"
    /\ stdin_poisoned = FALSE
    /\ tick_sent = 0
    /\ input_sent = 0
    /\ input = "none"
    /\ elapsed = 0
    /\ time_to_sleep = 0
    /\ prompted = FALSE
    /\ tick_late = 0
    /\ input_late = 0

Init == InitWith(Seeds)

----------------------------------------------------------------------------
(* The child process (opaque to the driver) *)

ChildWrite(l) ==
    /\ child = "running" /\ child_stdout_open
    /\ Len(produced) < MaxOutputLines
    /\ produced' = Append(produced, l)
    /\ UNCHANGED <<seed, coordVars, child, exit_code, child_stdin_open,
                   child_stdout_open, nread, printed, pipe, print_pc, tickVars,
                   inputVars, lockVars>>

ChildCloseStdout ==
    /\ child = "running" /\ child_stdout_open
    /\ child_stdout_open' = FALSE
    /\ UNCHANGED <<seed, coordVars, child, exit_code, child_stdin_open,
                   produced, printVars, pipe, tickVars, inputVars, lockVars>>

ChildCloseStdin ==
    /\ child = "running" /\ child_stdin_open
    /\ child_stdin_open' = FALSE
    /\ UNCHANGED <<seed, coordVars, child, exit_code, child_stdout_open,
                   produced, printVars, pipe, tickVars, inputVars, lockVars>>

ChildExit(code) ==
    /\ child = "running"
    /\ child' = "exited"
    /\ exit_code' = code
    /\ child_stdin_open' = FALSE
    /\ child_stdout_open' = FALSE
    /\ UNCHANGED <<seed, coordVars, produced, printVars, pipe, tickVars,
                   inputVars, lockVars>>

----------------------------------------------------------------------------
(* run_game *)

\* Command::spawn succeeds: both pipes exist
RunGameSpawnOk ==
    /\ coord = "spawn"
    /\ coord' = "seed_write"
    /\ child' = "running"
    /\ child_stdin_open' = TRUE
    /\ child_stdout_open' = TRUE
    /\ driver_stdin_open' = TRUE
    /\ UNCHANGED <<seed, coord_sent, exit_code, produced, printVars, pipe,
                   tickVars, inputVars, lockVars>>

\* Command::spawn fails: `?` returns the error
RunGameSpawnFail ==
    /\ coord = "spawn"
    /\ coord' = "Err_spawn"
    /\ UNCHANGED <<seed, coord_sent, driver_stdin_open, childVars, printVars,
                   pipe, tickVars, inputVars, lockVars>>

\* Variant: the seed line is not written
RunGameSeedWrite_Skip ==
    /\ coord = "seed_write"
    /\ coord' = "scope_print"
    /\ UNCHANGED <<seed, coord_sent, driver_stdin_open, childVars, printVars,
                   pipe, tickVars, inputVars, lockVars>>

\* stdin.write_all(seed line): one more byte accepted; after the last byte
\* start_time is taken and the scope is entered
RunGameSeedWrite ==
    /\ coord = "seed_write"
    /\ child_stdin_open /\ Len(pipe) < PipeCapacity
    /\ pipe' = Append(pipe, Byte("coord", SeedLine(seed)[coord_sent + 1]))
    /\ coord_sent' = coord_sent + 1
    /\ coord' = IF coord_sent + 1 = Len(SeedLine(seed)) THEN "scope_print"
                ELSE "seed_write"
    /\ UNCHANGED <<seed, driver_stdin_open, childVars, printVars, tickVars,
                   inputVars, lockVars>>

\* Variant: the error of the seed write is dropped
RunGameSeedWriteFail_Ignored ==
    /\ coord = "seed_write"
    /\ ~child_stdin_open
    /\ coord' = "scope_print"
    /\ UNCHANGED <<seed, coord_sent, driver_stdin_open, childVars, printVars,
                   pipe, tickVars, inputVars, lockVars>>

\* stdin.write_all(seed line) fails (broken pipe): `?` returns the error
RunGameSeedWriteFail ==
    /\ coord = "seed_write"
    /\ ~child_stdin_open
    /\ coord' = "Err_seed"
    /\ UNCHANGED <<seed, coord_sent, driver_stdin_open, childVars, printVars,
                   pipe, tickVars, inputVars, lockVars>>

RunGameScopePrint ==
    /\ coord = "scope_print"
    /\ coord' = "scope_tick"
    /\ print_pc' = "lines"
    /\ UNCHANGED <<seed, coord_sent, driver_stdin_open, childVars, nread,
                   printed, pipe, tickVars, inputVars, lockVars>>

RunGameScopeTick ==
    /\ coord = "scope_tick"
    /\ coord' = "scope_input"
    /\ tick_pc' = "loop"
    /\ UNCHANGED <<seed, coord_sent, driver_stdin_open, childVars, printVars,
                   pipe, tick_sent, elapsed, time_to_sleep, prompted,
                   inputVars, lockVars, tick_late>>

RunGameScopeInput ==
    /\ coord = "scope_input"
    /\ coord' = "scope_join"
    /\ input_pc' = "loop"
    /\ UNCHANGED <<seed, coord_sent, driver_stdin_open, childVars, printVars,
                   pipe, tickVars, input_sent, input, lockVars, input_late>>

\* Variant: the threads are detached, nothing is joined
RunGameScopeJoin_NoJoin ==
    /\ coord = "scope_join"
    /\ coord' = "wait"
    /\ UNCHANGED <<seed, coord_sent, driver_stdin_open, childVars, printVars,
                   pipe, tickVars, inputVars, lockVars>>

\* End of thread::scope: joins every spawned thread, panics if one panicked
RunGameScopeJoin ==
    /\ coord = "scope_join"
    /\ print_pc \in PrintDone /\ tick_pc \in TickDone /\ input_pc \in InputDone
    /\ coord' = IF \/ print_pc = "panic_decode"
                   \/ tick_pc \in TickPanic
                   \/ input_pc \in InputPanic
                THEN "panic" ELSE "wait"
    /\ UNCHANGED <<seed, coord_sent, driver_stdin_open, childVars, printVars,
                   pipe, tickVars, inputVars, lockVars>>

\* child.wait(): drops child.stdin, then blocks until the child has exited
RunGameWait ==
    /\ coord = "wait"
    /\ coord' = "waitpid"
    /\ driver_stdin_open' = FALSE
    /\ UNCHANGED <<seed, coord_sent, childVars, printVars, pipe, tickVars,
                   inputVars, lockVars>>

RunGameReturn ==
    /\ coord = "waitpid"
    /\ child = "exited"
    /\ coord' = "Ok"
    /\ UNCHANGED <<seed, coord_sent, driver_stdin_open, childVars, printVars,
                   pipe, tickVars, inputVars, lockVars>>

----------------------------------------------------------------------------
(* print_thread *)

\* Variant: the new line is put in front of what was printed
PrintLine_Prepend ==
    /\ print_pc = "lines"
    /\ nread < Len(produced)
    /\ produced[nread + 1] # "<invalid utf-8>"
    /\ nread' = nread + 1
    /\ printed' = <<produced[nread + 1]>> \o printed
    /\ UNCHANGED <<seed, coordVars, childVars, pipe, print_pc, tickVars,
                   inputVars, lockVars>>

\* stdout.lines() yields Ok(line); println!
PrintLine ==
    /\ print_pc = "lines"
    /\ nread < Len(produced)
    /\ produced[nread + 1] # "<invalid utf-8>"
    /\ nread' = nread + 1
    /\ printed' = Append(printed, produced[nread + 1])
    /\ UNCHANGED <<seed, coordVars, childVars, pipe, print_pc, tickVars,
                   inputVars, lockVars>>

\* stdout.lines() yields Err; line.unwrap() panics
PrintDecodeError ==
    /\ print_pc = "lines"
    /\ nread < Len(produced)
    /\ produced[nread + 1] = "<invalid utf-8>"
    /\ nread' = nread + 1
    /\ print_pc' = "panic_decode"
    /\ UNCHANGED <<seed, coordVars, childVars, pipe, printed, tickVars,
                   inputVars, lockVars>>

\* Variant: "no line available" is taken for end-of-stream
PrintEof_NoData ==
    /\ print_pc = "lines"
    /\ nread = Len(produced)
    /\ print_pc' = "returned"
    /\ UNCHANGED <<seed, coordVars, childVars, pipe, nread, printed, tickVars,
                   inputVars, lockVars>>

\* stdout.lines() ends: end-of-stream
PrintEof ==
    /\ print_pc = "lines"
    /\ nread = Len(produced)
    /\ ~child_stdout_open
    /\ print_pc' = "returned"
    /\ UNCHANGED <<seed, coordVars, childVars, pipe, nread, printed, tickVars,
                   inputVars, lockVars>>

----------------------------------------------------------------------------
(* tick_thread *)

\* game_thread.lock().unwrap()
TickLockHandle ==
    /\ tick_pc = "loop"
    /\ game_thread = "none"
    /\ game_thread' = "tick"
    /\ tick_pc' = "is_finished"
    /\ UNCHANGED <<seed, coordVars, childVars, printVars, pipe, tick_sent,
                   elapsed, time_to_sleep, prompted, inputVars, stdin,
                   stdin_poisoned, tick_late>>

\* Variant: the guard of the handle Mutex is bound to a variable and is
\* still alive when the stream is written
TickPoll_KeepGuard ==
    /\ tick_pc = "is_finished"
    /\ game_thread' = IF is_finished THEN "none" ELSE game_thread
    /\ IF is_finished
       THEN tick_pc' = "returned" /\ prompted' = TRUE
       ELSE tick_pc' = "lock_stdin" /\ prompted' = prompted
    /\ UNCHANGED <<seed, coordVars, childVars, printVars, pipe, tick_sent,
                   elapsed, time_to_sleep, inputVars, stdin, stdin_poisoned,
                   tick_late>>

\* Variant: the result of is_finished() is not acted upon
TickPoll_IgnoreFinished ==
    /\ tick_pc = "is_finished"
    /\ game_thread' = "none"
    /\ tick_pc' = "lock_stdin"
    /\ UNCHANGED <<seed, coordVars, childVars, printVars, pipe, tick_sent,
                   elapsed, time_to_sleep, prompted, inputVars, stdin,
                   stdin_poisoned, tick_late>>

\* .is_finished(), guard dropped; break and print the prompt when finished
TickPoll ==
    /\ tick_pc = "is_finished"
    /\ game_thread' = "none"
    /\ IF is_finished
       THEN tick_pc' = "returned" /\ prompted' = TRUE
       ELSE tick_pc' = "lock_stdin" /\ prompted' = prompted
    /\ UNCHANGED <<seed, coordVars, childVars, printVars, pipe, tick_sent,
                   elapsed, time_to_sleep, inputVars, stdin, stdin_poisoned,
                   tick_late>>

\* Variant: the stream is taken without waiting for the Mutex
TickLockStdin_NoExclusion ==
    /\ tick_pc = "lock_stdin"
    /\ ~stdin_poisoned
    /\ stdin' = "tick"
    /\ tick_pc' = "write_all"
    /\ tick_sent' = 0
    /\ UNCHANGED <<seed, coordVars, childVars, printVars, pipe, elapsed,
                   time_to_sleep, prompted, inputVars, game_thread,
                   stdin_poisoned, tick_late>>

\* stdin.lock().unwrap().  Only tick_thread can poison this Mutex, and it
\* does so by panicking, so tick_thread never finds it poisoned.
TickLockStdin ==
    /\ tick_pc = "lock_stdin"
    /\ stdin = "none"
    /\ ~stdin_poisoned
    /\ stdin' = "tick"
    /\ tick_pc' = "write_all"
    /\ tick_sent' = 0
    /\ UNCHANGED <<seed, coordVars, childVars, printVars, pipe, elapsed,
                   time_to_sleep, prompted, inputVars, game_thread,
                   stdin_poisoned, tick_late>>

\* Variant: the guard is bound to a variable and outlives the write
TickWrite_KeepGuard ==
    /\ tick_pc = "write_all"
    /\ child_stdin_open /\ Len(pipe) < PipeCapacity
    /\ pipe' = Append(pipe, Byte("tick", TICK_TOKEN[tick_sent + 1]))
    /\ IF tick_sent + 1 = Len(TICK_TOKEN)
       THEN tick_sent' = 0 /\ stdin' = stdin /\ tick_pc' = "now"
       ELSE tick_sent' = tick_sent + 1 /\ stdin' = stdin /\ tick_pc' = tick_pc
    /\ tick_late' = LateAttempt(tick_sent, tick_late)
    /\ UNCHANGED <<seed, coordVars, childVars, printVars, elapsed,
                   time_to_sleep, prompted, inputVars, game_thread,
                   stdin_poisoned>>

\* write_all(b"'\n"): one more byte accepted; guard dropped after the last
TickWrite ==
    /\ tick_pc = "write_all"
    /\ child_stdin_open /\ Len(pipe) < PipeCapacity
    /\ pipe' = Append(pipe, Byte("tick", TICK_TOKEN[tick_sent + 1]))
    /\ IF tick_sent + 1 = Len(TICK_TOKEN)
       THEN tick_sent' = 0 /\ stdin' = "none" /\ tick_pc' = "now"
       ELSE tick_sent' = tick_sent + 1 /\ stdin' = stdin /\ tick_pc' = tick_pc
    /\ tick_late' = LateAttempt(tick_sent, tick_late)
    /\ UNCHANGED <<seed, coordVars, childVars, printVars, elapsed,
                   time_to_sleep, prompted, inputVars, game_thread,
                   stdin_poisoned>>

\* write_all fails; .unwrap() panics while the guard is alive: poisons
TickWriteFail ==
    /\ tick_pc = "write_all"
    /\ ~child_stdin_open
    /\ tick_pc' = "panic_write"
    /\ stdin' = "none"
    /\ stdin_poisoned' = TRUE
    /\ tick_late' = LateAttempt(tick_sent, tick_late)
    /\ UNCHANGED <<seed, coordVars, childVars, printVars, pipe, tick_sent,
                   elapsed, time_to_sleep, prompted, inputVars, game_thread>>

\* Variant: the time is measured from the previous tick, not from start_time
TickClock_SinceLastTick(e) ==
    /\ tick_pc = "now"
    /\ e >= elapsed
    /\ elapsed' = e
    /\ time_to_sleep' = SleepMillis(e - elapsed)
    /\ tick_pc' = "sleep"
    /\ UNCHANGED <<seed, coordVars, childVars, printVars, pipe, tick_sent,
                   prompted, inputVars, lockVars, tick_late>>

\* SystemTime::now() - start_time = e seconds; num, time_to_sleep computed
TickClock(e) ==
    /\ tick_pc = "now"
    /\ e >= elapsed
    /\ elapsed' = e
    /\ time_to_sleep' = SleepMillis(e)
    /\ tick_pc' = "sleep"
    /\ UNCHANGED <<seed, coordVars, childVars, printVars, pipe, tick_sent,
                   prompted, inputVars, lockVars, tick_late>>

\* Variant: the liveness check is made once, before the loop
TickSleep_SkipCheck ==
    /\ tick_pc = "sleep"
    /\ tick_pc' = "lock_stdin"
    /\ UNCHANGED <<seed, coordVars, childVars, printVars, pipe, tick_sent,
                   elapsed, time_to_sleep, prompted, inputVars, lockVars,
                   tick_late>>

\* thread::sleep returns
TickSleep ==
    /\ tick_pc = "sleep"
    /\ tick_pc' = "loop"
    /\ UNCHANGED <<seed, coordVars, childVars, printVars, pipe, tick_sent,
                   elapsed, time_to_sleep, prompted, inputVars, lockVars,
                   tick_late>>

----------------------------------------------------------------------------
(* input_thread *)

\* Term::stdout(); game_thread.lock().unwrap().  The `input` of the previous
\* iteration is out of scope.
InputLockHandle ==
    /\ input_pc = "loop"
    /\ game_thread = "none"
    /\ game_thread' = "input"
    /\ input_pc' = "is_finished"
    /\ input' = "none"
    /\ UNCHANGED <<seed, coordVars, childVars, printVars, pipe, tickVars,
                   input_sent, stdin, stdin_poisoned, input_late>>

\* Variant: the result of is_finished() is not acted upon
InputPoll_IgnoreFinished ==
    /\ input_pc = "is_finished"
    /\ game_thread' = "none"
    /\ input_pc' = "read_char"
    /\ UNCHANGED <<seed, coordVars, childVars, printVars, pipe, tickVars,
                   input_sent, input, stdin, stdin_poisoned, input_late>>

\* Variant: the guard of the handle Mutex is bound to a variable and is
\* still alive during read_char
InputPoll_KeepGuard ==
    /\ input_pc = "is_finished"
    /\ game_thread' = IF is_finished THEN "none" ELSE game_thread
    /\ input_pc' = IF is_finished THEN "returned" ELSE "read_char"
    /\ UNCHANGED <<seed, coordVars, childVars, printVars, pipe, tickVars,
                   input_sent, input, stdin, stdin_poisoned, input_late>>

\* .is_finished(), guard dropped; break when finished
InputPoll ==
    /\ input_pc = "is_finished"
    /\ game_thread' = "none"
    /\ input_pc' = IF is_finished THEN "returned" ELSE "read_char"
    /\ UNCHANGED <<seed, coordVars, childVars, printVars, pipe, tickVars,
                   input_sent, input, stdin, stdin_poisoned, input_late>>

\* term.read_char() returns Ok(c); VALID_CHARS.contains(&input)
InputReadChar(c) ==
    /\ input_pc = "read_char"
    /\ IF c \in VALID_CHARS
       THEN input' = c /\ input_pc' = "lock_stdin"
       ELSE input' = c /\ input_pc' = "loop"
    /\ UNCHANGED <<seed, coordVars, childVars, printVars, pipe, tickVars,
                   input_sent, lockVars, input_late>>

\* term.read_char() returns Err; .unwrap() panics
InputReadError ==
    /\ input_pc = "read_char"
    /\ input_pc' = "panic_read"
    /\ UNCHANGED <<seed, coordVars, childVars, printVars, pipe, tickVars,
                   input_sent, input, lockVars, input_late>>

\* stdin.lock().unwrap() on a healthy Mutex
InputLockStdin ==
    /\ input_pc = "lock_stdin"
    /\ stdin = "none"
    /\ ~stdin_poisoned
    /\ stdin' = "input"
    /\ input_pc' = "write_all"
    /\ input_sent' = 0
    /\ UNCHANGED <<seed, coordVars, childVars, printVars, pipe, tickVars,
                   input, game_thread, stdin_poisoned, input_late>>

\* stdin.lock() returns Err(PoisonError); .unwrap() panics
InputLockPoisoned ==
    /\ input_pc = "lock_stdin"
    /\ stdin = "none"
    /\ stdin_poisoned
    /\ input_pc' = "panic_poison"
    /\ UNCHANGED <<seed, coordVars, childVars, printVars, pipe, tickVars,
                   input_sent, input, lockVars, input_late>>

\* write_all(key line): one more byte accepted; guard dropped after the last
InputWrite ==
    /\ input_pc = "write_all"
    /\ child_stdin_open /\ Len(pipe) < PipeCapacity
    /\ pipe' = Append(pipe, Byte("input", KeyLine(input)[input_sent + 1]))
    /\ IF input_sent + 1 = Len(KeyLine(input))
       THEN input_sent' = 0 /\ stdin' = "none" /\ input_pc' = "loop"
       ELSE input_sent' = input_sent + 1 /\ stdin' = stdin /\ input_pc' = input_pc
    /\ input_late' = LateAttempt(input_sent, input_late)
    /\ UNCHANGED <<seed, coordVars, childVars, printVars, tickVars, input,
                   game_thread, stdin_poisoned>>

\* Variant: `continue` instead of `break` after a failed write
InputWriteFail_Retry ==
    /\ input_pc = "write_all"
    /\ ~child_stdin_open
    /\ input_pc' = "loop"
    /\ stdin' = "none"
    /\ input_late' = LateAttempt(input_sent, input_late)
    /\ UNCHANGED <<seed, coordVars, childVars, printVars, pipe, tickVars,
                   input_sent, input, game_thread, stdin_poisoned>>

\* write_all fails: `if let Err(_)` breaks out of the loop, guard dropped
InputWriteFail ==
    /\ input_pc = "write_all"
    /\ ~child_stdin_open
    /\ input_pc' = "returned"
    /\ stdin' = "none"
    /\ input_late' = LateAttempt(input_sent, input_late)
    /\ UNCHANGED <<seed, coordVars, childVars, printVars, pipe, tickVars,
                   input_sent, input, game_thread, stdin_poisoned>>

----------------------------------------------------------------------------
ChildStep(lines, codes) ==
    \/ \E l \in lines : ChildWrite(l)
    \/ ChildCloseStdout
    \/ ChildCloseStdin
    \/ \E code \in codes : ChildExit(code)

RunGameStep ==
    \/ RunGameSpawnOk
    \/ RunGameSpawnFail
    \/ RunGameSeedWrite
    \/ RunGameSeedWriteFail
    \/ RunGameScopePrint
    \/ RunGameScopeTick
    \/ RunGameScopeInput
    \/ RunGameScopeJoin
    \/ RunGameWait
    \/ RunGameReturn

PrintStep == PrintLine \/ PrintDecodeError \/ PrintEof

TickStep(samples) ==
    \/ TickLockHandle
    \/ TickPoll
    \/ TickLockStdin
    \/ TickWrite
    \/ TickWriteFail
    \/ \E e \in samples : TickClock(e)
    \/ TickSleep

InputStep(keys) ==
    \/ InputLockHandle
    \/ InputPoll
    \/ \E c \in keys : InputReadChar(c)
    \/ InputReadError
    \/ InputLockStdin
    \/ InputLockPoisoned
    \/ InputWrite
    \/ InputWriteFail

Next ==
    \/ ChildStep(OutputLines, ExitCodes)
    \/ RunGameStep
    \/ PrintStep
    \/ TickStep(ElapsedSamples)
    \/ InputStep(Keys)

Spec == Init /\ [][Next]_vars

\* The same program in a smaller environment: one seed, one valid and one
\* discarded key, one exit code, one clock sample.
FairSeeds   == {12}
FairKeys    == {"w", "x"}
FairSamples == {100}
FairCodes   == {0}

FairNext ==
    \/ ChildStep(OutputLines, FairCodes)
    \/ RunGameStep
    \/ PrintStep
    \/ TickStep(FairSamples)
    \/ InputStep(FairKeys)

\* Fairness: the driver does not halt while one of its threads can take a
\* step or a pending read_char can return (WF of FairNext, which weak fairness
\* of each thread implies), print_thread is scheduled, and the child
\* eventually exits, closing its pipes.
FairSpec ==
    /\ InitWith(FairSeeds) /\ [][FairNext]_vars
    /\ WF_vars(FairNext)
    /\ WF_vars(PrintStep)
    /\ WF_vars(\E code \in FairCodes : ChildExit(code))

\* The same program with a child that has two different lines to say, in a
\* smaller environment otherwise.
RelaySeeds   == {7}
RelayLines   == {"hello", "world", "<invalid utf-8>"}
RelayKeys    == {"w", "x"}
RelaySamples == {3}
RelayCodes   == {0}

RelayNext ==
    \/ ChildStep(RelayLines, RelayCodes)
    \/ RunGameStep
    \/ PrintStep
    \/ TickStep(RelaySamples)
    \/ InputStep(RelayKeys)

RelaySpec == InitWith(RelaySeeds) /\ [][RelayNext]_vars

\* The same program with a clock that can show many elapsed times, in a
\* smaller environment otherwise.
CadenceSeeds   == {7}
CadenceKeys    == {"w", "x"}
CadenceSamples == {0, 3, 10, 11, 50, 100, 1000, 10000}
CadenceCodes   == {0}

CadenceNext ==
    \/ ChildStep(OutputLines, CadenceCodes)
    \/ RunGameStep
    \/ PrintStep
    \/ TickStep(CadenceSamples)
    \/ InputStep(CadenceKeys)

CadenceSpec == InitWith(CadenceSeeds) /\ [][CadenceNext]_vars

\* The same program at a terminal where no key is ever pressed: read_char
\* never returns.  Fairness: the two tasks do not both halt while one of them
\* can take a step (which weak fairness of each of them implies); nothing is
\* assumed of the child, of print_thread or of run_game.  The child writes
\* valid lines only, so print_thread never meets a decoding error.
NoKeySeeds == {7}
NoKeyLines == {"hello"}

NoKeyNext ==
    \/ ChildStep(NoKeyLines, FairCodes)
    \/ RunGameStep
    \/ PrintLine
    \/ PrintEof
    \/ TickStep(FairSamples)
    \/ InputLockHandle
    \/ InputPoll

NoKeySpec ==
    /\ InitWith(NoKeySeeds) /\ [][NoKeyNext]_vars
    /\ WF_vars(TickStep(FairSamples) \/ InputLockHandle \/ InputPoll)

----------------------------------------------------------------------------
(* Properties *)

SeedLen == Len(SeedLine(seed))

AnyTaskStarted ==
    print_pc # "unstarted" \/ tick_pc # "unstarted" \/ input_pc # "unstarted"

AllTasksDone ==
    print_pc \in PrintDone /\ tick_pc \in TickDone /\ input_pc \in InputDone

\* The writer w of a line is in the middle of its write_all
MidWrite(w) ==
    \/ w = "coord" /\ coord = "seed_write"
    \/ w = "tick"  /\ tick_pc = "write_all" /\ stdin = "tick"
    \/ w = "input" /\ input_pc = "write_all" /\ stdin = "input"

\* C1: a task writes to the child's stdin only while it holds the stdin
\* Mutex, and in the byte sequence on the child's stdin every byte that does
\* not end a line is followed by a byte of the same writer; a line can be
\* incomplete only at the very end, while its writer is still writing it or
\* after the child has closed its stdin.
C1_WholeLines ==
    /\ tick_pc = "write_all" => stdin = "tick"
    /\ input_pc = "write_all" => stdin = "input"
    /\ \A i \in 1..Len(pipe) :
         pipe[i].b # "\n" =>
            IF i < Len(pipe) THEN pipe[i + 1].w = pipe[i].w
            ELSE MidWrite(pipe[i].w) \/ ~child_stdin_open

\* C1 witness: tick_thread is halfway through its line while input_thread is
\* waiting for the Mutex with a key to send.
C1_Witness ==
    /\ tick_pc = "write_all" /\ tick_sent = 1
    /\ input_pc = "lock_stdin"
    /\ child_stdin_open

\* C2 as stated: once print_thread has finished on end-of-stream, nothing
\* more is written to the child's stdin.
C2_NoWriteAfterFinish == [][print_pc = "returned" => pipe' = pipe]_vars

\* C2 amended: once print_thread has finished, a liveness check by
\* tick_thread or input_thread finds it finished, and the task leaves its loop
\* for good without writing.
C2_CheckAfterFinishLeaves ==
    [][/\ (is_finished /\ tick_pc = "is_finished" /\ tick_pc' # tick_pc)
            => (tick_pc' = "returned" /\ pipe' = pipe)
       /\ (is_finished /\ input_pc = "is_finished" /\ input_pc' # input_pc)
            => (input_pc' = "returned" /\ pipe' = pipe)
       /\ (tick_pc = "returned" \/ input_pc = "returned")
            => (\A i \in 1..Len(pipe') :
                  i > Len(pipe) =>
                     /\ tick_pc = "returned" => pipe'[i].w # "tick"
                     /\ input_pc = "returned" => pipe'[i].w # "input")
       /\ tick_pc = "returned" => tick_pc' = "returned"
       /\ input_pc = "returned" => input_pc' = "returned"]_vars

\* C2 witness: both tasks have left their loops after print_thread finished,
\* tick_thread by its liveness check.
C2_Witness ==
    /\ is_finished
    /\ tick_pc = "returned" /\ prompted
    /\ input_pc = "returned"
    /\ child_stdin_open

\* C3: as soon as a task is started the child's stdin begins with the whole
\* seed line, written by run_game; the seed bytes are nowhere else; every
\* later line is the tick token (from tick_thread) or one of w, a, s, d, q
\* (from input_thread), followed by a newline from the same writer.
C3_SeedThenCommands ==
    /\ AnyTaskStarted => Len(pipe) >= SeedLen
    /\ \A i \in 1..Len(pipe) :
         IF i <= SeedLen
         THEN pipe[i] = Byte("coord", SeedLine(seed)[i])
         ELSE /\ AnyTaskStarted
              /\ pipe[i].w \in {"tick", "input"}
              /\ IF (i - SeedLen) % 2 = 1
                 THEN \/ pipe[i] = Byte("tick", "'")
                      \/ pipe[i].w = "input" /\ pipe[i].b \in {"w", "a", "s", "d", "q"}
                 ELSE pipe[i].b = "\n" /\ pipe[i].w = pipe[i - 1].w

\* C3 witness: after the seed line, a tick line and a key line were written.
C3_Witness ==
    /\ Len(pipe) = SeedLen + 4
    /\ \E i \in 1..Len(pipe) : pipe[i].w = "tick"
    /\ \E i \in 1..Len(pipe) : pipe[i].w = "input"
    /\ pipe[Len(pipe)].b = "\n"

\* C4 as stated: a failed write by tick_thread or input_thread only ends that
\* task's loop (no panic), the other task does not fail because of it, and
\* run_game does not fail because of it.
C4_WriteFailureIsLocal ==
    /\ tick_pc # "panic_write"
    /\ input_pc # "panic_poison"
    /\ coord = "panic" => (print_pc = "panic_decode" \/ input_pc = "panic_read")

\* C5 as stated: with a child that writes the one line "hello", closes its
\* output and exits with code 0, once the scope has ended the line has been
\* printed, both tasks have left their loops and run_game is on its way to
\* returning Ok.
C5_HelloScenarioSucceeds ==
    (/\ produced = <<"hello">>
     /\ child = "exited" /\ exit_code = 0
     /\ input_pc # "panic_read"
     /\ coord \in {"wait", "waitpid", "Ok", "panic"})
        => /\ coord # "panic"
           /\ printed = <<"hello">>
           /\ tick_pc = "returned"
           /\ input_pc = "returned"

\* C6: the finished state of print_thread never reverts, and no step of
\* tick_thread or input_thread changes it.
C6_LivenessSignalMonotone ==
    [][/\ is_finished => is_finished'
       /\ (tick_pc' # tick_pc \/ input_pc' # input_pc)
            => (print_pc' = print_pc /\ nread' = nread)]_vars

\* C6 witness: tick_thread has polled true and input_thread polls afterwards.
C6_Witness ==
    /\ tick_pc = "returned"
    /\ input_pc = "is_finished"
    /\ is_finished

\* C7: when read_char returns, a key among w, a, s, d, q takes the relay to the
\* write of that key and any other key takes it back to the top of the loop
\* with the stream unchanged; while the relay writes, what it has put on the
\* stream is a prefix of the key followed by a newline, and a completed write
\* has added exactly those two bytes.
C7_InputFiltering ==
    [][/\ (input_pc = "read_char" /\ input_pc' \notin {"read_char", "panic_read"})
            => IF input' \in {"w", "a", "s", "d", "q"}
               THEN input_pc' = "lock_stdin" /\ pipe' = pipe
               ELSE input_pc' = "loop" /\ pipe' = pipe
       /\ (input_pc = "write_all" /\ input_sent = 1)
            => pipe[Len(pipe)] = Byte("input", input)
       /\ (input_pc = "write_all" /\ input_pc' = "loop")
            => /\ input \in {"w", "a", "s", "d", "q"}
               /\ Len(pipe') >= 2
               /\ SubSeq(pipe', Len(pipe') - 1, Len(pipe'))
                     = <<Byte("input", input), Byte("input", "\n")>>
               /\ SubSeq(pipe', 1, Len(pipe') - 2)
                     = SubSeq(pipe, 1, Len(pipe) - 1)
       /\ (input_pc \in {"loop", "is_finished", "read_char"}
           /\ input_pc' \in {"loop", "is_finished", "read_char"})
            => (\A i \in 1..Len(pipe') : i > Len(pipe) => pipe'[i].w # "input")]_vars

\* C7 witness: a key line has been forwarded and a discarded key was read.
C7_Witness ==
    /\ input_pc = "loop"
    /\ input = "W"
    /\ \E i \in 1..Len(pipe) : pipe[i] = Byte("input", "\n")

\* C8: run_game is in (or past) child.wait() only when all three tasks have
\* finished, and it has returned Ok only when the child has exited.
C8_WaitAfterAllTasks ==
    /\ coord \in {"wait", "waitpid", "Ok"} => AllTasksDone
    /\ coord = "Ok" => (child = "exited" /\ ~driver_stdin_open)

\* C8 witness: run_game returned Ok.
C8_Witness == coord = "Ok" /\ Len(printed) > 0 /\ Len(pipe) > SeedLen

\* C9: if the spawn failed (no child although run_game is past it) or the seed
\* write failed (the seed line is incomplete although run_game is past it),
\* run_game has returned an error, no task was started, nothing was printed
\* and only seed bytes are on the child's stdin.
C9_FailureStartsNothing ==
    /\ (coord # "spawn" /\ child = "none") => coord = "Err_spawn"
    /\ (coord \notin {"spawn", "seed_write"} /\ child # "none" /\ Len(pipe) < SeedLen)
          => coord = "Err_seed"
    /\ coord \in {"Err_spawn", "Err_seed"}
          => /\ ~AnyTaskStarted
             /\ printed = <<>>
             /\ \A i \in 1..Len(pipe) : pipe[i].w = "coord"

\* C9 witness: the seed write failed half way.
C9_Witness == coord = "Err_seed" /\ Len(pipe) > 0 /\ Len(produced) > 0

C11_NoLockWhileBlocked ==
    /\ input_pc = "read_char" => (stdin # "input" /\ game_thread # "input")
    /\ tick_pc = "sleep" => (stdin # "tick" /\ game_thread # "tick")
    /\ print_pc = "lines" => (stdin \notin {"print"} /\ game_thread \notin {"print"})
    /\ stdin # "none" => MidWrite(stdin)

\* C11 witness: all three tasks are blocked at once, after a tick and a key
\* were written.
C11_Witness ==
    /\ input_pc = "read_char" /\ tick_pc = "sleep" /\ print_pc = "lines"
    /\ \E i \in 1..Len(pipe) : pipe[i].w = "input"


\* C17: after print_thread has finished, tick_thread begins at most one more
\* write_all on the child's stdin, and so does input_thread.
C17_AtMostOneLateWrite == tick_late <= 1 /\ input_late <= 1

\* C17 witness: each task made its one late write attempt, and both left
\* their loops at the following check.
C17_Witness ==
    /\ tick_late = 1 /\ input_late = 1
    /\ tick_pc = "returned" /\ input_pc = "returned"
    /\ child_stdin_open


\* C13: a task whose write_all fails leaves its loop at once (tick_thread by
\* its panic, input_thread by break); from then on it writes nothing more to
\* the child's stdin, and input_thread reads no further key.
C13_NoRetryAfterWriteFailure ==
    [][/\ (tick_pc = "write_all" /\ ~child_stdin_open /\ tick_pc' # tick_pc)
            => tick_pc' = "panic_write"
       /\ (input_pc = "write_all" /\ ~child_stdin_open /\ input_pc' # input_pc)
            => input_pc' = "returned"
       /\ tick_pc = "panic_write"
            => /\ tick_pc' = "panic_write"
               /\ \A i \in 1..Len(pipe') : i > Len(pipe) => pipe'[i].w # "tick"
       /\ input_pc = "returned"
            => /\ input_pc' = "returned" /\ input' = input
               /\ \A i \in 1..Len(pipe') : i > Len(pipe) => pipe'[i].w # "input"]_vars

\* C13 witness: the write of input_thread failed first (print_thread has not
\* finished, so it did not leave by its check), then the write of tick_thread.
C13_Witness ==
    /\ input_pc = "returned" /\ ~is_finished
    /\ tick_pc = "panic_write"

\* C14 as stated: a liveness check returns true only when the child's output
\* is closed and every line of it has been consumed.
C14_TrueOnlyAfterEof ==
    tick_pc = "returned" => (~child_stdout_open /\ nread = Len(produced))

\* C14 amended: a liveness check returns true only when print_thread has
\* ended, and print_thread ends either on end-of-stream (the child's output is
\* closed and every line was consumed) or by its panic on a line that failed
\* to decode.
C14_TrueOnlyAfterRelayEnded ==
    /\ tick_pc = "returned" => is_finished
    /\ (input_pc = "returned" /\ child_stdin_open) => is_finished
    /\ print_pc = "returned" => (~child_stdout_open /\ nread = Len(produced))
    /\ print_pc = "panic_decode"
          => (nread >= 1 /\ produced[nread] = "<invalid utf-8>")

\* C14 witness: tick_thread polled true after the panic of print_thread,
\* with the child's output still open and a line unread.
C14_Witness ==
    /\ tick_pc = "returned"
    /\ print_pc = "panic_decode"
    /\ child_stdout_open /\ nread < Len(produced)

\* C19: no task holds the handle Mutex and the stdin Mutex at the same time,
\* and tick_thread and input_thread never wait for each other's lock.
C19_NoLockCycle ==
    /\ ~(game_thread = "tick" /\ stdin = "tick")
    /\ ~(game_thread = "input" /\ stdin = "input")
    /\ ~(/\ tick_pc = "loop" /\ game_thread = "input"
         /\ input_pc = "lock_stdin" /\ stdin = "tick")
    /\ ~(/\ tick_pc = "lock_stdin" /\ stdin = "input"
         /\ input_pc = "loop" /\ game_thread = "tick")
    /\ game_thread = "tick" => tick_pc = "is_finished"
    /\ game_thread = "input" => input_pc = "is_finished"

\* C19 witness: both locks are held at once, by different tasks, while
\* tick_thread waits for the one input_thread holds.
C19_Witness ==
    /\ game_thread = "tick" /\ stdin = "input"
    /\ input_pc = "write_all" /\ input_sent = 1


\* C12: what print_thread has printed is always the first lines of what the
\* child has produced, in the same order and each once; it has consumed
\* exactly those lines (and, after its panic, the line it panicked on); when
\* it has returned on end-of-stream it has printed everything.
C12_PrintedIsPrefix ==
    /\ Len(printed) <= Len(produced)
    /\ printed = SubSeq(produced, 1, Len(printed))
    /\ nread = IF print_pc = "panic_decode" THEN Len(printed) + 1 ELSE Len(printed)
    /\ print_pc = "returned" => printed = produced

\* C12 witness: two different lines were printed in the child's order and
\* print_thread returned.
C12_Witness ==
    /\ print_pc = "returned"
    /\ printed = <<"hello", "world">>


\* Completed tick lines on the child's stdin
TickLines == Cardinality({i \in 1..Len(pipe) : pipe[i] = Byte("tick", "\n")})

\* C15: each time tick_thread reads the clock, which has not gone back, the
\* sleep interval it computes is no longer than the one it computed before;
\* in particular a later elapsed time of at least 10 seconds never gives a
\* longer interval than an earlier one.
C15_CadenceNonIncreasing ==
    [][(tick_pc = "now" /\ tick_pc' = "sleep")
          => /\ elapsed' >= elapsed
             /\ time_to_sleep' = SleepMillis(elapsed')
             /\ TickLines >= 2 => time_to_sleep' <= time_to_sleep
             /\ \A e1 \in CadenceSamples :
                  (BASE <= e1 /\ e1 < elapsed')
                     => time_to_sleep' <= SleepMillis(e1)]_vars

\* C15 witness: a second interval was computed, shorter than the longest one,
\* at a later elapsed time.
C15_Witness ==
    /\ tick_pc = "sleep" /\ TickLines = 2
    /\ elapsed = 10000 /\ time_to_sleep < MAX_SLEEP_MILLI

\* C16: the interval computed is 1.0 s for every elapsed time of at most
\* 10 s, 0.6 s at 100 s and 0.3 s at 10000 s.
C16_CadenceValues ==
    tick_pc = "sleep"
       => /\ elapsed <= 10 => time_to_sleep = 1000
          /\ elapsed = 100 => time_to_sleep = 600
          /\ elapsed = 10000 => time_to_sleep = 300

\* C16 witness: an interval was computed at 100 s.
C16_Witness == tick_pc = "sleep" /\ elapsed = 100 /\ time_to_sleep = 600


\* The child's stdin cannot take one more whole tick line: it is closed, or
\* it is full so that the write blocks
TickCannotSucceed ==
    ~child_stdin_open \/ Len(pipe) + Len(TICK_TOKEN) > PipeCapacity

\* C18: with no key ever pressed, whenever tick_thread is at the top of its
\* loop or asleep, it eventually completes the write of another tick, unless
\* print_thread finishes or the child's stdin stops taking tick lines.
C18_TicksWithoutKeys ==
    (tick_pc \in {"loop", "sleep"})
        ~> (tick_pc = "now" \/ is_finished \/ TickCannotSucceed)

\* C18 witness: a second tick was written while input_thread sits in
\* read_char and print_thread has not finished.
C18_Witness ==
    /\ tick_pc = "now" /\ TickLines = 2
    /\ input_pc = "read_char"
    /\ ~is_finished /\ child_stdin_open

====
